---- MODULE Spec2Model ----
(***************************************************************************)
(* A model of the PopperContent component                                  *)
(* (packages/components/popper/src/popperContent.ts).                      *)
(*                                                                         *)
(* The component's reactive state (props, refs, the values useFloating     *)
(* returns) are the variables.  Computed values are operators over them.   *)
(* A computation of the engine reads its options when update() is called   *)
(* and writes its result in a later step.  Watch callbacks and the render  *)
(* function are jobs: a write to a ref they depend on queues them, and a   *)
(* later step of the scheduler runs them.                                  *)
(*                                                                         *)
(* JavaScript strings that the code takes apart (the placement) are         *)
(* sequences of one-character strings.  An optional value is a sequence of *)
(* length 0 (undefined / null) or 1.                                       *)
(***************************************************************************)
EXTENDS Integers, Sequences, FiniteSets, TLC

VARIABLES
    props,                  \* the component's props (toRefs(props))
    detectOverflowOptions,  \* plain object built once in setup()
    callbackRef,            \* the callback useCallbackRef was given at setup
    arrow,                  \* ref<HTMLSpanElement | null>, written by descendants
    el,                     \* $el of useRef(): the wrapper element bound by newRef
    unmounted,              \* the component has been unmounted
    content,                \* ref<HTMLDivElement | null>(null)
    contentZIndex,          \* ref()
    pending,                \* options read by the computation in flight, if any
    x, y,                   \* useFloating: coordinates
    placement,              \* useFloating: resolved placement
    isPositioned,           \* useFloating: isPositioned
    middlewareData,         \* useFloating: middlewareData
    placedSide, placedAlign,\* refs written by watch(placement)
    placementOld,           \* value of placement the watcher of placement last saw
    positionedOld,          \* value of isPositioned its watcher last saw
    jobs,                   \* jobs queued in the scheduler
    onPlacedCalls,          \* invocations of the setup-time onPlaced callback so far
    rendered                \* the virtual nodes the render function last returned

vars == <<props, detectOverflowOptions, callbackRef, arrow, el, unmounted, content,
          contentZIndex, pending, x, y, placement, isPositioned, middlewareData,
          placedSide, placedAlign, placementOld, positionedOld, jobs,
          onPlacedCalls, rendered>>

----------------------------------------------------------------------------
(* Bounds of the model *)

MaxOffset == 1       \* sideOffset, alignOffset, arrowPadding range over 0..MaxOffset
MaxPadding == 1      \* numeric collision paddings range over 0..MaxPadding
MaxBoundary == 1     \* collisionBoundary arrays have at most MaxBoundary entries
MaxCoord == 1        \* largest coordinate and arrow offset the engine reports
MaxCenterOffset == 1 \* largest distance of the arrow from the centre it reports
MaxArrowSize == 1    \* arrow elements have height 1..MaxArrowSize

----------------------------------------------------------------------------
(* Values *)

None == <<>>
Some(v) == <<v>>

Top == <<"t", "o", "p">>
Right == <<"r", "i", "g", "h", "t">>
Bottom == <<"b", "o", "t", "t", "o", "m">>
Left == <<"l", "e", "f", "t">>
Start == <<"s", "t", "a", "r", "t">>
Center == <<"c", "e", "n", "t", "e", "r">>
End == <<"e", "n", "d">>
Dash == <<"-">>

SIDE_OPTIONS == {Top, Right, Bottom, Left}
ALIGN_OPTIONS == {Start, Center, End}

\* The Placement type of the positioning engine.
PLACEMENTS ==
    SIDE_OPTIONS \cup {s \o Dash \o a : s \in SIDE_OPTIONS, a \in {Start, End}}

Edges == {"top", "right", "bottom", "left"}

\* A Padding value: a number, or an object with some of the four edges.
NumberPadding(n) == [type |-> "number", n |-> n, edges |-> [e \in Edges |-> None]]
ObjectPadding(f) == [type |-> "object", n |-> 0, edges |-> f]

PartialEdgeSets == {{}, {"top"}, {"bottom", "left"}, Edges}

PaddingInputs ==
    {NumberPadding(n) : n \in 0..MaxPadding}
    \cup {ObjectPadding([e \in Edges |-> IF e \in S THEN Some(MaxPadding) ELSE None]) :
            S \in PartialEdgeSets}

\* A Boundary is an element or null; the prop is one Boundary or an array.
Boundaries == {"null", "elementA"}

BoundarySeqs(n) == UNION {[1..k -> Boundaries] : k \in 0..n}

BoundaryInputs ==
    {[isArray |-> FALSE, items |-> <<b>>] : b \in Boundaries}
    \cup {[isArray |-> TRUE, items |-> s] : s \in BoundarySeqs(MaxBoundary)}

ArrowElements == {[width |-> 2 * h, height |-> h] : h \in 1..MaxArrowSize}

WrapperElement == "div"

DefaultProps ==
    [side |-> Bottom, sideOffset |-> 0, align |-> Center, alignOffset |-> 0,
     arrowPadding |-> 0, avoidCollisions |-> TRUE,
     collisionBoundary |-> [isArray |-> TRUE, items |-> <<>>],
     collisionPadding |-> NumberPadding(0), sticky |-> "partial",
     hideWhenDetached |-> FALSE, updatePositionStrategy |-> "optimized",
     onPlaced |-> "undefined"]

PropDomain(name) ==
    CASE name = "side" -> SIDE_OPTIONS
      [] name = "align" -> ALIGN_OPTIONS
      [] name \in {"sideOffset", "alignOffset", "arrowPadding"} -> 0..MaxOffset
      [] name \in {"avoidCollisions", "hideWhenDetached"} -> BOOLEAN
      [] name = "collisionBoundary" -> BoundaryInputs
      [] name = "collisionPadding" -> PaddingInputs
      [] name = "sticky" -> {"partial", "always"}
      [] name = "updatePositionStrategy" -> {"optimized", "always"}
      [] name = "onPlaced" -> {"undefined", "onPlaced"}

----------------------------------------------------------------------------
(* Helpers of ./utils and of the composables package *)

isNotNull(value) == value # "null"

isDefined(value) == value # None

RECURSIVE split(_, _)
\* String.prototype.split with a one-character separator.
split(str, sep) ==
    IF \E i \in 1..Len(str) : str[i] = sep
    THEN LET i == CHOOSE j \in 1..Len(str) :
                      str[j] = sep /\ \A k \in 1..(j - 1) : str[k] # sep
         IN  <<SubSeq(str, 1, i - 1)>> \o split(SubSeq(str, i + 1, Len(str)), sep)
    ELSE <<str>>

\* const [side, align = 'center'] = placement.split('-'); return [side, align]
getSideAndAlignFromPlacement(p) ==
    LET parts == split(p, "-")
    IN  <<parts[1], IF Len(parts) >= 2 THEN parts[2] ELSE Center>>

\* useSize(element): the measured size of the element, undefined without one.
useSize(element) ==
    IF element = None THEN None
    ELSE Some([width |-> element[1].width, height |-> element[1].height])

----------------------------------------------------------------------------
(* setup(): values computed once, from the props at that time *)

\* The padding as supplied, without the zero defaults for missing edges.
collisionPaddingNoDefaults(collisionPaddingProp) == collisionPaddingProp

collisionPadding(collisionPaddingProp) ==
    IF collisionPaddingProp.type = "number"
    THEN collisionPaddingProp
    ELSE ObjectPadding([e \in Edges |->
            IF collisionPaddingProp.edges[e] # None
            THEN collisionPaddingProp.edges[e]
            ELSE Some(0)])

boundary(collisionBoundary) ==
    IF collisionBoundary.isArray
    THEN collisionBoundary.items
    ELSE <<collisionBoundary.items[1]>>

hasExplicitBoundaries(collisionBoundary) == Len(boundary(collisionBoundary)) > 0

DetectOverflowOptions(p) ==
    [padding |-> collisionPadding(p.collisionPadding),
     boundary |-> SelectSeq(boundary(p.collisionBoundary), isNotNull),
     altBoundary |-> hasExplicitBoundaries(p.collisionBoundary)]

----------------------------------------------------------------------------
(* Computed values *)

arrowSize == useSize(arrow)

arrowWidth == IF arrowSize = None THEN 0 ELSE arrowSize[1].width

arrowHeight == IF arrowSize = None THEN 0 ELSE arrowSize[1].height

DesiredPlacementOf(side, align) ==
    side \o (IF align # Center THEN Dash \o align ELSE <<>>)

\* The requested side alone, without the alignment suffix.
desiredPlacementNoSuffix == props.side

desiredPlacement == DesiredPlacementOf(props.side, props.align)

\* The list the _middleware getter builds from props p, overflow options doo,
\* and the arrow ref's value a.
MiddlewareList(p, doo, a) ==
    LET size0 == useSize(a)
        height0 == IF size0 = None THEN 0 ELSE size0[1].height
        width0 == IF size0 = None THEN 0 ELSE size0[1].width
        r1 == <<[name |-> "offset",
                 options |-> [mainAxis |-> p.sideOffset + height0,
                              alignmentAxis |-> p.alignOffset]]>>
        r2 == IF p.avoidCollisions
              THEN r1 \o <<[name |-> "shift",
                            options |-> [mainAxis |-> TRUE, crossAxis |-> FALSE,
                                         limiter |-> IF p.sticky = "partial"
                                                     THEN "limitShift"
                                                     ELSE "undefined",
                                         padding |-> doo.padding,
                                         boundary |-> doo.boundary,
                                         altBoundary |-> doo.altBoundary]],
                           [name |-> "flip", options |-> doo]>>
              ELSE r1
        r3 == r2 \o <<[name |-> "size", options |-> doo]>>
        r4 == IF a # None
              THEN r3 \o <<[name |-> "arrow",
                            options |-> [element |-> a[1],
                                         padding |-> p.arrowPadding]]>>
              ELSE r3
        r5 == r4 \o <<[name |-> "transformOrigin",
                       options |-> [arrowWidth |-> width0, arrowHeight |-> height0]]>>
        r6 == IF p.hideWhenDetached
              THEN r5 \o <<[name |-> "hide",
                            options |-> [strategy |-> "referenceHidden",
                                         padding |-> doo.padding,
                                         boundary |-> doo.boundary,
                                         altBoundary |-> doo.altBoundary]]>>
              ELSE r5
    IN  SelectSeq(r6, isDefined)

\* A list with the size step pushed before the collision steps.
middlewareSizeFirst ==
    LET m == MiddlewareList(props, detectOverflowOptions, arrow)
        isSize(s) == s.name = "size"
        notSize(s) == s.name # "size"
    IN  <<m[1]>> \o SelectSeq(m, isSize) \o SelectSeq(Tail(m), notSize)

_middleware == MiddlewareList(props, detectOverflowOptions, arrow)

\* What useFloating reads when it recomputes.
EngineOptions ==
    [strategy |-> "fixed", placement |-> desiredPlacement, middleware |-> _middleware]

----------------------------------------------------------------------------
(* Values derived from what useFloating returns *)

Translate(tx, ty) == "translate(" \o ToString(tx) \o "px, " \o ToString(ty) \o "px)"

\* floatingStyles of useFloating (strategy 'fixed', transform enabled): the
\* initial styles until the floating element exists, then a translation.
floatingStyles ==
    [position |-> "fixed", left |-> "0", top |-> "0",
     transform |-> IF el = "null" THEN "undefined" ELSE Translate(x, y)]

\* v || 0 for an optional number v
OrZero(v) == IF v = None \/ v[1] = 0 THEN 0 ELSE v[1]

\* middlewareData.value.arrow?.field
ArrowField(field) ==
    IF middlewareData.arrow = None THEN None ELSE middlewareData.arrow[1][field]

\* The arrow's x offset formatted without the || 0 default.
arrowXNoDefault ==
    (IF ArrowField("x") = None THEN "undefined" ELSE ToString(ArrowField("x")[1])) \o "px"

arrowX == ToString(OrZero(ArrowField("x"))) \o "px"

arrowY == ToString(OrZero(ArrowField("y"))) \o "px"

\* The flag if missing arrow data counted as a centred arrow.
cannotCenterArrowWhenReported ==
    ArrowField("centerOffset") # None /\ ArrowField("centerOffset") # Some(0)

cannotCenterArrow == ArrowField("centerOffset") # Some(0)

PopperContentProvider ==
    [arrowX |-> arrowX, arrowY |-> arrowY, shouldHideArrow |-> cannotCenterArrow,
     arrow |-> arrow, placedSide |-> placedSide, anchor |-> "anchor",
     x |-> x, y |-> y]

OffScreen == "translate(0, -200%)"

\* The render function without the off-screen transform.
originalReturnAlwaysTransform ==
    [wrapper |-> [ref |-> "newRef", position |-> floatingStyles.position,
                  left |-> floatingStyles.left \o "px",
                  top |-> floatingStyles.top \o "px",
                  transform |-> floatingStyles.transform,
                  minWidth |-> "max-content", zIndex |-> contentZIndex],
     inner |-> [dataSide |-> "placedSide", dataAlign |-> "placedAlign",
                animation |-> IF ~isPositioned THEN "none" ELSE "undefined",
                opacity |-> IF middlewareData.hide # None
                               /\ middlewareData.hide[1].referenceHidden
                            THEN "0" ELSE "undefined"]]

\* The render function.  The inner node is given the refs placedSide and
\* placedAlign themselves, not their values.
originalReturn ==
    [wrapper |-> [ref |-> "newRef", position |-> floatingStyles.position,
                  left |-> floatingStyles.left \o "px",
                  top |-> floatingStyles.top \o "px",
                  transform |-> IF isPositioned THEN floatingStyles.transform
                                ELSE OffScreen,
                  minWidth |-> "max-content", zIndex |-> contentZIndex],
     inner |-> [dataSide |-> "placedSide", dataAlign |-> "placedAlign",
                animation |-> IF ~isPositioned THEN "none" ELSE "undefined",
                opacity |-> IF middlewareData.hide # None
                               /\ middlewareData.hide[1].referenceHidden
                            THEN "0" ELSE "undefined"]]

----------------------------------------------------------------------------
(* Watchers *)

\* handlePlaced = useCallbackRef(onPlaced.value): a stable function that
\* forwards to the callback it was given at setup (callbackRef).  Number of
\* invocations of that callback one call of handlePlaced makes.
handlePlaced == IF callbackRef # "undefined" THEN 1 ELSE 0

\* watch([isPositioned, handlePlaced], cb).  handlePlaced is a function, so
\* the watcher takes it as a getter and calls it whenever it evaluates its
\* sources: once when the watcher is created, and once each time its job
\* runs, before cb is called for a changed value.
WatchPlacedCreate == handlePlaced

WatchPlacedRun(old, new) ==
    handlePlaced + (IF new # old /\ new THEN handlePlaced ELSE 0)

\* z-index of the computed style of an element
ComputedZIndex(element) == "auto"

\* watch(content, ...)
WatchContent(old, new, z) ==
    IF new # old /\ new # "null" THEN ComputedZIndex(new) ELSE z

----------------------------------------------------------------------------
(* The positioning engine, as far as the component observes it *)

Opposite(side) ==
    CASE side = Top -> Bottom [] side = Bottom -> Top
      [] side = Left -> Right [] side = Right -> Left

HasStep(middleware, name) ==
    \E i \in 1..Len(middleware) : middleware[i].name = name

\* The side a placement string starts with, if it is a placement.
EngineSides(pl) ==
    {s \in SIDE_OPTIONS : Len(pl) >= Len(s) /\ SubSeq(pl, 1, Len(s)) = s}

\* The placements a computation of request req resolves to here: the
\* requested one, or with the flip step the one on the opposite side.
EnginePlacements(req) ==
    {pl \in PLACEMENTS :
        \/ pl = req.placement
        \/ /\ HasStep(req.middleware, "flip")
           /\ \E s \in EngineSides(req.placement) :
                pl = Opposite(s) \o SubSeq(req.placement, Len(s) + 1, Len(req.placement))}

IsVertical(pl) == pl[1] \in {"t", "b"}

\* Values the engine reports: coordinates <<x, y>>, and for the arrow its
\* offset and its distance from the centre, <<offset, centerOffset>>.
Coords == {<<0, MaxCoord>>, <<MaxCoord, 0>>}
ArrowResults == {<<MaxCoord, 0>>, <<0, MaxCenterOffset>>}

\* Arrow data exists when the arrow step ran; it holds the offset along the
\* placement's cross axis and the centre offset.
EngineArrowData(req, pl) ==
    IF HasStep(req.middleware, "arrow")
    THEN {Some([x |-> IF IsVertical(pl) THEN Some(r[1]) ELSE None,
                y |-> IF IsVertical(pl) THEN None ELSE Some(r[1]),
                centerOffset |-> Some(r[2])]) : r \in ArrowResults}
    ELSE {None}

EngineHideData(req) ==
    IF HasStep(req.middleware, "hide")
    THEN {Some([referenceHidden |-> b]) : b \in BOOLEAN}
    ELSE {None}

----------------------------------------------------------------------------
(* Initial state: setup() has run and the first render has been produced *)

InitWith(p) ==
    /\ props = p
    /\ detectOverflowOptions = DetectOverflowOptions(p)
    /\ callbackRef = p.onPlaced
    /\ arrow = None
    /\ el = "null"
    /\ unmounted = FALSE
    /\ content = "null"
    /\ contentZIndex = "undefined"
    /\ pending = None
    /\ x = 0
    /\ y = 0
    /\ placement = desiredPlacement
    /\ isPositioned = FALSE
    /\ middlewareData = [arrow |-> None, hide |-> None]
    /\ placedSide = p.side
    /\ placedAlign = p.align
    /\ placementOld = placement
    /\ positionedOld = isPositioned
    /\ jobs = {}
    /\ onPlacedCalls = WatchPlacedCreate
    /\ rendered = originalReturn

----------------------------------------------------------------------------
(* Actions *)

\* The scheduler runs the jobs js: the watcher of placement, the watcher of
\* [isPositioned, handlePlaced], then the render function.
RunJobs(js) ==
    /\ placedSide' = IF "watchPlacement" \in js /\ placement # placementOld
                     THEN getSideAndAlignFromPlacement(placement)[1]
                     ELSE placedSide
    /\ placedAlign' = IF "watchPlacement" \in js /\ placement # placementOld
                      THEN getSideAndAlignFromPlacement(placement)[2]
                      ELSE placedAlign
    /\ placementOld' = IF "watchPlacement" \in js THEN placement ELSE placementOld
    /\ onPlacedCalls' = onPlacedCalls
                        + (IF "watchPlaced" \in js
                           THEN WatchPlacedRun(positionedOld, isPositioned)
                           ELSE 0)
    /\ positionedOld' = IF "watchPlaced" \in js THEN isPositioned ELSE positionedOld
    /\ jobs' = {}
    /\ rendered' = IF "render" \in js THEN originalReturn' ELSE rendered

\* The parent re-renders with a new value for one prop: the component's
\* props are patched, its queued watcher jobs are run and it renders again,
\* all within the parent's render job.
SetProp(name, value) ==
    /\ ~unmounted
    /\ props[name] # value
    /\ props' = [props EXCEPT ![name] = value]
    /\ UNCHANGED <<detectOverflowOptions, callbackRef, arrow, el, unmounted, content,
                   contentZIndex, pending, x, y, placement, isPositioned,
                   middlewareData>>
    /\ RunJobs(jobs \cup {"render"})

\* A descendant stores its element in the arrow ref of the provider.
RegisterArrow ==
    /\ ~unmounted
    /\ arrow = None
    /\ \E a \in ArrowElements : arrow' = Some(a)
    /\ UNCHANGED <<props, detectOverflowOptions, callbackRef, el, unmounted, content,
                   contentZIndex, pending, x, y, placement, isPositioned,
                   middlewareData, placedSide, placedAlign, placementOld,
                   positionedOld, jobs, onPlacedCalls, rendered>>

\* The descendant goes away and the arrow ref is null again.
UnregisterArrow ==
    /\ ~unmounted
    /\ arrow # None
    /\ arrow' = None
    /\ UNCHANGED <<props, detectOverflowOptions, callbackRef, el, unmounted, content,
                   contentZIndex, pending, x, y, placement, isPositioned,
                   middlewareData, placedSide, placedAlign, placementOld,
                   positionedOld, jobs, onPlacedCalls, rendered>>

\* The component is mounted: newRef receives the wrapper element, which the
\* render function depends on through floatingStyles, and onMounted calls
\* update(), which reads the options and starts a computation.
Mount ==
    /\ ~unmounted
    /\ el = "null"
    /\ el' = WrapperElement
    /\ content' = content
    /\ contentZIndex' = WatchContent(content, content', contentZIndex)
    /\ pending' = Some(EngineOptions)
    /\ jobs' = jobs \cup {"render"}
    /\ UNCHANGED <<props, detectOverflowOptions, callbackRef, arrow, unmounted, x, y,
                   placement, isPositioned, middlewareData, placedSide, placedAlign,
                   placementOld, positionedOld, onPlacedCalls, rendered>>

\* update() is called again (auto-update, or the engine's own watchers of
\* its options) once the previous computation has delivered its result: the
\* options are read now, the result is written later.
StartUpdate ==
    /\ ~unmounted
    /\ el # "null"
    /\ pending = None
    /\ pending' = Some(EngineOptions)
    /\ UNCHANGED <<props, detectOverflowOptions, callbackRef, arrow, el, unmounted,
                   content, contentZIndex, x, y, placement, isPositioned,
                   middlewareData, placedSide, placedAlign, placementOld,
                   positionedOld, jobs, onPlacedCalls, rendered>>

\* The computation in flight completes and the engine writes its refs.  Each
\* watcher whose source changed, and the render function, is queued; none of
\* them has run yet.  After unmount the watchers and the render effect are
\* stopped and nothing is queued.
EngineWrite ==
    /\ pending # None
    /\ LET req == pending[1]
       IN  \E c \in Coords, pl \in EnginePlacements(req) :
             \E ad \in EngineArrowData(req, pl), hd \in EngineHideData(req) :
                /\ x' = c[1]
                /\ y' = c[2]
                /\ placement' = pl
                /\ middlewareData' = [arrow |-> ad, hide |-> hd]
    /\ isPositioned' = TRUE
    /\ pending' = None
    /\ jobs' = IF unmounted THEN jobs
               ELSE jobs \cup {"render"}
                         \cup (IF placement' # placement THEN {"watchPlacement"} ELSE {})
                         \cup (IF isPositioned' # isPositioned THEN {"watchPlaced"} ELSE {})
    /\ UNCHANGED <<props, detectOverflowOptions, callbackRef, arrow, el, unmounted,
                   content, contentZIndex, placedSide, placedAlign, placementOld,
                   positionedOld, onPlacedCalls, rendered>>

\* The scheduler flushes its queue.
Flush ==
    /\ ~unmounted
    /\ jobs # {}
    /\ UNCHANGED <<props, detectOverflowOptions, callbackRef, arrow, el, unmounted,
                   content, contentZIndex, pending, x, y, placement, isPositioned,
                   middlewareData>>
    /\ RunJobs(jobs)

\* The component is unmounted: the wrapper's ref is cleared, the watchers and
\* the render effect are stopped.  Computations in flight still complete.
Unmount ==
    /\ ~unmounted
    /\ el # "null"
    /\ unmounted' = TRUE
    /\ el' = "null"
    /\ jobs' = {}
    /\ UNCHANGED <<props, detectOverflowOptions, callbackRef, arrow, content,
                   contentZIndex, pending, x, y, placement, isPositioned,
                   middlewareData, placedSide, placedAlign, placementOld,
                   positionedOld, onPlacedCalls, rendered>>

----------------------------------------------------------------------------
(* Specifications *)

\* The component's life: mount, arrow registration, engine computations,
\* scheduler flushes, unmount, and changes of the requested side and of the
\* onPlaced callback, for every requested alignment.
Init ==
    \E s \in SIDE_OPTIONS, a \in ALIGN_OPTIONS, cb \in PropDomain("onPlaced") :
        InitWith([DefaultProps EXCEPT !.side = s, !.align = a, !.onPlaced = cb])

SetSide == \E v \in SIDE_OPTIONS : SetProp("side", v)

SetOnPlaced == \E v \in PropDomain("onPlaced") : SetProp("onPlaced", v)

Next ==
    \/ SetSide
    \/ SetOnPlaced
    \/ RegisterArrow
    \/ UnregisterArrow
    \/ Mount
    \/ StartUpdate
    \/ EngineWrite
    \/ Flush
    \/ Unmount

Spec == Init /\ [][Next]_vars

\* The translation of props into the engine's configuration, under changes
\* of every placement-request prop.
PlacementRequestProps ==
    {"side", "align", "sideOffset", "alignOffset", "arrowPadding", "avoidCollisions",
     "collisionBoundary", "collisionPadding", "sticky", "hideWhenDetached"}

InitConfig == InitWith(DefaultProps)

SetRequestProp == \E name \in PlacementRequestProps : \E v \in PropDomain(name) : SetProp(name, v)

NextConfig ==
    \/ SetRequestProp
    \/ RegisterArrow
    \/ UnregisterArrow

SpecConfig == InitConfig /\ [][NextConfig]_vars

\* setup() applied to every kind of collisionBoundary and collisionPadding.
InitSetup ==
    \E b \in BoundaryInputs, pad \in PaddingInputs :
        InitWith([DefaultProps EXCEPT !.collisionBoundary = b, !.collisionPadding = pad])

SetFlag ==
    \E name \in {"avoidCollisions", "sticky", "hideWhenDetached"} :
        \E v \in PropDomain(name) : SetProp(name, v)

NextSetup ==
    \/ SetFlag
    \/ RegisterArrow
    \/ UnregisterArrow

SpecSetup == InitSetup /\ [][NextSetup]_vars

----------------------------------------------------------------------------
(* Properties *)

StepNames == [i \in 1..Len(_middleware) |-> _middleware[i].name]

HasArrowStep == \E i \in 1..Len(_middleware) : _middleware[i].name = "arrow"

CanonicalOrder ==
    <<"offset", "shift", "flip", "size", "arrow", "transformOrigin", "hide">>

StepExpected(name) ==
    CASE name \in {"shift", "flip"} -> props.avoidCollisions
      [] name = "arrow" -> arrow # None
      [] name = "hide" -> props.hideWhenDetached
      [] OTHER -> TRUE

\* C1: the middleware list is always offset, [shift, flip], size, [arrow],
\* transformOrigin, [hide] in that order; shift and flip are present exactly
\* when avoidCollisions is true (whatever sticky is), arrow exactly when an
\* arrow element is registered, hide exactly when hideWhenDetached is true.
ClaimC1_MiddlewareOrder == StepNames = SelectSeq(CanonicalOrder, StepExpected)

\* C1 witness: collisions not avoided, an arrow registered, hide requested.
WitnessC1 ==
    /\ ~props.avoidCollisions
    /\ props.sticky = "always"
    /\ arrow # None
    /\ props.hideWhenDetached
    /\ StepNames = <<"offset", "size", "arrow", "transformOrigin", "hide">>

\* C2: with an onPlaced callback registered, a step in which the watcher
\* sees isPositioned gone from false to true invokes the callback exactly
\* once, and every other step does not invoke it.
ClaimC2_OnPlacedOncePerTransition ==
    [][callbackRef # "undefined" =>
          onPlacedCalls' = onPlacedCalls
                           + (IF ~positionedOld /\ positionedOld' THEN 1 ELSE 0)]_vars

\* The mounted component has rendered since the last write to a ref its
\* render function reads.
RenderedUpToDate == ~unmounted /\ "render" \notin jobs

\* C3: what a render pass returns has as the wrapper's transform the
\* off-screen value while isPositioned is false, and the engine's
\* floatingStyles.transform while it is true.
ClaimC3_WrapperTransform ==
    RenderedUpToDate =>
        rendered.wrapper.transform =
            IF isPositioned THEN floatingStyles.transform ELSE OffScreen

\* C3 witness: positioned at non-zero coordinates, and rendered there.
WitnessC3 ==
    /\ RenderedUpToDate
    /\ isPositioned
    /\ x = MaxCoord
    /\ rendered.wrapper.transform = Translate(MaxCoord, y)

\* C4: the configuration the engine reads is the one derived from the
\* current values of the props.
ClaimC4_ConfigFollowsProps ==
    EngineOptions =
        [strategy |-> "fixed",
         placement |-> DesiredPlacementOf(props.side, props.align),
         middleware |-> MiddlewareList(props, DetectOverflowOptions(props), arrow)]

\* C5: altBoundary is true exactly when collisionBoundary supplied at least
\* one non-null boundary element.
ClaimC5_AltBoundaryIffExplicit ==
    detectOverflowOptions.altBoundary =
        (\E i \in 1..Len(props.collisionBoundary.items) :
            props.collisionBoundary.items[i] # "null")

\* C6 as stated: the padding of the overflow options is always a four-edge
\* record; a number n gives n on every edge, a partial record keeps its edges
\* and has 0 on the others.
ClaimC6_AlwaysFourEdges ==
    LET pad == detectOverflowOptions.padding
        prop == props.collisionPadding
    IN  /\ pad.type = "object"
        /\ \A e \in Edges :
              pad.edges[e] = IF prop.type = "number" THEN Some(prop.n)
                             ELSE IF prop.edges[e] # None THEN prop.edges[e]
                             ELSE Some(0)

\* C6 amended: a number is placed in the overflow options unchanged, as a
\* number; a partial record becomes a four-edge record that keeps its edges
\* and has 0 on the others.
ClaimC6_NumberKeptRecordCompleted ==
    LET pad == detectOverflowOptions.padding
        prop == props.collisionPadding
    IN  /\ prop.type = "number" =>
              /\ pad.type = "number"
              /\ pad.n = prop.n
              /\ \A e \in Edges : pad.edges[e] = None
        /\ prop.type = "object" =>
              /\ pad.type = "object"
              /\ \A e \in Edges :
                    pad.edges[e] = IF prop.edges[e] # None THEN prop.edges[e]
                                   ELSE Some(0)

\* C6 witness: a record with some edges given and others not, completed.
WitnessC6 ==
    /\ props.collisionPadding.type = "object"
    /\ props.collisionPadding.edges["left"] = Some(MaxPadding)
    /\ props.collisionPadding.edges["top"] = None
    /\ detectOverflowOptions.padding.edges["left"] = Some(MaxPadding)
    /\ detectOverflowOptions.padding.edges["top"] = Some(0)

\* C7: once mounted and rendered, the rendered wrapper's zIndex is the
\* computed z-index of the rendered element.
ClaimC7_ZIndexCopied ==
    el # "null" /\ RenderedUpToDate =>
        rendered.wrapper.zIndex = ComputedZIndex(el)

\* C8 as stated: whenever no arrow element is registered, there is no arrow
\* step and the published arrowX and arrowY are "0px".
ClaimC8_NoArrowZeroOffsets ==
    arrow = None =>
        /\ ~HasArrowStep
        /\ PopperContentProvider.arrowX = "0px"
        /\ PopperContentProvider.arrowY = "0px"

\* C8 amended: whenever no arrow element is registered, there is no arrow
\* step, and the published arrowX and arrowY are "0px" if the engine's latest
\* result holds no arrow data.
ClaimC8_NoArrowNoDataZeroOffsets ==
    arrow = None =>
        /\ ~HasArrowStep
        /\ middlewareData.arrow = None =>
              /\ PopperContentProvider.arrowX = "0px"
              /\ PopperContentProvider.arrowY = "0px"

\* C8 witness: the engine has computed a position with no arrow registered.
WitnessC8 ==
    /\ arrow = None
    /\ isPositioned
    /\ middlewareData.arrow = None
    /\ PopperContentProvider.arrowX = "0px"

\* C9: the desired placement decomposes into the requested side and
\* alignment, and when the engine's placement is the desired one and its
\* watcher has run, placedSide and placedAlign are the requested side and
\* alignment.
ClaimC9_PlacementRoundTrip ==
    /\ getSideAndAlignFromPlacement(desiredPlacement) = <<props.side, props.align>>
    /\ placement = desiredPlacement /\ ~unmounted /\ "watchPlacement" \notin jobs =>
          /\ placedSide = props.side
          /\ placedAlign = props.align

\* C9 witness: the engine has returned the desired placement, one with an
\* alignment suffix, and the watcher of placement has seen it.
WitnessC9 ==
    /\ isPositioned
    /\ ~unmounted
    /\ jobs = {}
    /\ props.side = Left
    /\ props.align = End
    /\ placement = desiredPlacement
    /\ placementOld = placement
    /\ placedSide = Left
    /\ placedAlign = End

\* C10 as stated: shouldHideArrow is false only when the engine has reported
\* arrow data with centerOffset 0, and true in every other state, including
\* before any computation and whenever no arrow element is registered.
ClaimC10_HideArrowUnlessCentred ==
    /\ PopperContentProvider.shouldHideArrow =
          ~(middlewareData.arrow # None
            /\ middlewareData.arrow[1].centerOffset = Some(0))
    /\ ~isPositioned => PopperContentProvider.shouldHideArrow
    /\ arrow = None => PopperContentProvider.shouldHideArrow

\* C10 amended: shouldHideArrow is false exactly when the engine's latest
\* result holds arrow data with centerOffset 0, and true in every other
\* state, including before any computation and whenever that result holds no
\* arrow data.
ClaimC10_HideArrowFollowsData ==
    /\ PopperContentProvider.shouldHideArrow =
          ~(middlewareData.arrow # None
            /\ middlewareData.arrow[1].centerOffset = Some(0))
    /\ ~isPositioned => PopperContentProvider.shouldHideArrow
    /\ middlewareData.arrow = None => PopperContentProvider.shouldHideArrow

\* C10 witness: an arrow is registered and the engine centred it.
WitnessC10 ==
    /\ arrow # None
    /\ middlewareData.arrow # None
    /\ middlewareData.arrow[1].centerOffset = Some(0)
    /\ ~PopperContentProvider.shouldHideArrow

====
